---- MODULE Spec2Model ----
(***************************************************************************)
(* Ducker: a MIDI-triggered sidechain ducking effect (src/dsp/ducker.c).   *)
(*                                                                         *)
(* One ducker_instance_t is modelled by the record `inst`.  The handlers   *)
(* v2_process_block (one frame per step, or a buffer of several frames),   *)
(* ducker_on_midi, v2_set_param and v2_get_param are the actions.          *)
(*                                                                         *)
(* Numbers.  A float parameter is held as an integer count of 1/PUnit      *)
(* (five decimal places).  vel_depth and envelope are exact rationals      *)
(* <<numerator, denominator>> in lowest terms: float rounding of the       *)
(* envelope arithmetic is abstracted to exact arithmetic.  The parameter   *)
(* values the model writes are chosen away from the points where float     *)
(* rounding changes a sample count or a printed digit.                     *)
(***************************************************************************)
EXTENDS Integers, Sequences, FiniteSets, TLC

VARIABLES
    inst,   \* the ducker_instance_t: parameters and envelope state
    last,   \* the most recent call on the instance and what it did
    entry,  \* how the current envelope phase was entered
    n,      \* frames processed since the most recent qualifying note-on
    fresh,  \* a second instance restored from inst's "state" (or NoInst)
    got     \* the most recent v2_get_param call and its result (or NoGet)

vars == <<inst, last, entry, n, fresh, got>>

\* ------------------------------------------------------------- bounds

\* Longest attack / hold / release, in samples, that the model configures.
MaxLen == 3

\* Longest attack / hold / release, in samples, that the interleaved
\* specification writes.
MaxWriteLen == 2

\* Cap on active_notes (the code's counter is an unbounded int).
MaxHeld == 2

\* Cap on frames processed while one phase lasts (Gate-mode Hold never ends
\* by itself) and on the frame counter n.
MaxPos == 3

\* ---------------------------------------------------------- constants

SAMPLE_RATE == 44100

PHASE_IDLE == 0
PHASE_ATTACK == 1
PHASE_HOLD == 2
PHASE_RELEASE == 3

CURVE_LINEAR == 0
CURVE_EXPO == 1
CURVE_SCURVE == 2
CURVE_PUMP == 3

MODE_TRIGGER == 0
MODE_GATE == 1

\* One parameter unit is 1/PUnit: "0.0246" is 2460.
PUnit == 1000 * 100

\* ------------------------------------------------- exact rationals

Abs(x) == IF x < 0 THEN -x ELSE x

RECURSIVE Gcd(_, _)
Gcd(a, b) == IF b = 0 THEN a ELSE Gcd(b, a % b)

\* The rational num/den (den > 0) in lowest terms.
Rat(num, den) ==
    LET g == Gcd(Abs(num), den)
    IN  IF num = 0 THEN <<0, 1>> ELSE <<num \div g, den \div g>>

ROne == <<1, 1>>
RZero == <<0, 1>>
RAdd(a, b) == Rat(a[1] * b[2] + b[1] * a[2], a[2] * b[2])
RSub(a, b) == Rat(a[1] * b[2] - b[1] * a[2], a[2] * b[2])
RMul(a, b) == Rat(a[1] * b[1], a[2] * b[2])
RLe(a, b) == a[1] * b[2] <= b[1] * a[2]
RLt(a, b) == a[1] * b[2] < b[1] * a[2]

\* A parameter value (count of 1/PUnit) as a rational.
OfParam(v) == Rat(v, PUnit)

\* ------------------------------------------------ envelope helpers

clampf(x, lo, hi) == IF x < lo THEN lo ELSE IF x > hi THEN hi ELSE x

\* clampf on rationals, as shape_curve applies it to t.
clampfR(x, lo, hi) == IF RLt(x, lo) THEN lo ELSE IF RLt(hi, x) THEN hi ELSE x

\* (int)(ms * (SAMPLE_RATE / 1000.0f)), ms given in units of 1/PUnit ms.
\* The product is split at 10 ms so that it stays inside 32 bits.
ms_to_samples(msU) ==
    LET per10 == SAMPLE_RATE \div 100
        whole == msU \div (10 * PUnit)
        rem   == msU % (10 * PUnit)
    IN  whole * per10 + (rem * per10) \div (10 * PUnit)

attack_samples(i) == ms_to_samples(i.attack * 50)
hold_samples(i) == ms_to_samples(i.hold * 500)
release_samples(i) == ms_to_samples(i.release * 1000)

\* shape_curve with the sign of the Pump release cube flipped.
shape_curve_PumpSign(curve, t0, is_release) ==
    LET t == clampfR(t0, RZero, ROne)
    IN  CASE curve = CURVE_EXPO -> RMul(t, t)
          [] curve = CURVE_SCURVE ->
                RMul(RMul(t, t), RSub(<<3, 1>>, RMul(<<2, 1>>, t)))
          [] curve = CURVE_PUMP ->
                IF is_release
                THEN LET inv == RSub(ROne, t)
                     IN  RAdd(ROne, RMul(RMul(inv, inv), inv))
                ELSE t
          [] OTHER -> t

shape_curve(curve, t0, is_release) ==
    LET t == clampfR(t0, RZero, ROne)
    IN  CASE curve = CURVE_EXPO -> RMul(t, t)
          [] curve = CURVE_SCURVE ->
                RMul(RMul(t, t), RSub(<<3, 1>>, RMul(<<2, 1>>, t)))
          [] curve = CURVE_PUMP ->
                IF is_release
                THEN LET inv == RSub(ROne, t)
                     IN  RSub(ROne, RMul(RMul(inv, inv), inv))
                ELSE t
          [] OTHER -> t

\* start_attack without the zero-length cascade.
start_attack_NoZeroAttack(i) ==
    [i EXCEPT !.phase = PHASE_ATTACK,
              !.phase_pos = 0,
              !.phase_len = attack_samples(i)]

start_attack(i) ==
    LET a == [i EXCEPT !.phase = PHASE_ATTACK,
                       !.phase_pos = 0,
                       !.phase_len = attack_samples(i)]
        \* Zero attack - jump straight to hold
        h == [a EXCEPT !.envelope = RSub(ROne, a.vel_depth),
                       !.phase = PHASE_HOLD,
                       !.phase_pos = 0,
                       !.phase_len = hold_samples(a)]
        \* Zero hold in trigger mode - jump to release
        r == [h EXCEPT !.phase = PHASE_RELEASE,
                       !.phase_pos = 0,
                       !.phase_len = release_samples(h)]
    IN  IF a.phase_len <= 0
        THEN IF h.phase_len <= 0 /\ h.mode = MODE_TRIGGER THEN r ELSE h
        ELSE a

\* start_release going to Idle on a zero length without setting the gain.
start_release_KeepGain(i) ==
    LET r == [i EXCEPT !.phase = PHASE_RELEASE,
                       !.phase_pos = 0,
                       !.phase_len = release_samples(i)]
    IN  IF r.phase_len <= 0
        THEN [r EXCEPT !.phase = PHASE_IDLE]
        ELSE r

\* start_release without the zero-length check.
start_release_NoSnap(i) ==
    [i EXCEPT !.phase = PHASE_RELEASE,
              !.phase_pos = 0,
              !.phase_len = release_samples(i)]

start_release(i) ==
    LET r == [i EXCEPT !.phase = PHASE_RELEASE,
                       !.phase_pos = 0,
                       !.phase_len = release_samples(i)]
    IN  IF r.phase_len <= 0
        THEN [r EXCEPT !.phase = PHASE_IDLE, !.envelope = ROne]
        ELSE r

\* --------------------------------------------------------- instance

\* v2_create_instance: calloc, then the defaults.
v2_create_instance ==
    [channel |-> 1, trigger_note |-> 36, mode |-> MODE_TRIGGER,
     depth |-> PUnit, attack |-> PUnit \div 10, hold |-> 2 * (PUnit \div 10),
     release |-> 3 * (PUnit \div 10), curve |-> CURVE_LINEAR, vel_sens |-> 0,
     phase |-> PHASE_IDLE, phase_pos |-> 0, phase_len |-> 0,
     vel_depth |-> RZero, envelope |-> ROne, active_notes |-> 0]

\* ------------------------------------------------------ block processor

\* The Attack case leaving Attack one frame late (> for >=).
AdvanceAttack_OffByOne(i) ==
    LET t == Rat(i.phase_pos, i.phase_len)
        shaped == shape_curve(i.curve, t, FALSE)
        e == IF i.phase_len > 0
             THEN [i EXCEPT !.envelope = RSub(ROne, RMul(i.vel_depth, shaped))]
             ELSE i
        p == [e EXCEPT !.phase_pos = e.phase_pos + 1]
        h == [p EXCEPT !.envelope = RSub(ROne, p.vel_depth),
                       !.phase = PHASE_HOLD,
                       !.phase_pos = 0,
                       !.phase_len = hold_samples(p)]
        r == [h EXCEPT !.phase = PHASE_RELEASE,
                       !.phase_pos = 0,
                       !.phase_len = release_samples(h)]
    IN  IF p.phase_pos > p.phase_len
        THEN IF h.phase_len <= 0 /\ h.mode = MODE_TRIGGER THEN r ELSE h
        ELSE p

\* The Attack case always entering Hold, zero length or not.
AdvanceAttack_NoCascade(i) ==
    LET t == Rat(i.phase_pos, i.phase_len)
        shaped == shape_curve(i.curve, t, FALSE)
        e == IF i.phase_len > 0
             THEN [i EXCEPT !.envelope = RSub(ROne, RMul(i.vel_depth, shaped))]
             ELSE i
        p == [e EXCEPT !.phase_pos = e.phase_pos + 1]
        h == [p EXCEPT !.envelope = RSub(ROne, p.vel_depth),
                       !.phase = PHASE_HOLD,
                       !.phase_pos = 0,
                       !.phase_len = hold_samples(p)]
    IN  IF p.phase_pos >= p.phase_len THEN h ELSE p

\* case PHASE_ATTACK of the per-frame switch.
AdvanceAttack(i) ==
    LET t == Rat(i.phase_pos, i.phase_len)
        shaped == shape_curve(i.curve, t, FALSE)
        e == IF i.phase_len > 0
             THEN [i EXCEPT !.envelope = RSub(ROne, RMul(i.vel_depth, shaped))]
             ELSE i
        p == [e EXCEPT !.phase_pos = e.phase_pos + 1]
        h == [p EXCEPT !.envelope = RSub(ROne, p.vel_depth),
                       !.phase = PHASE_HOLD,
                       !.phase_pos = 0,
                       !.phase_len = hold_samples(p)]
        r == [h EXCEPT !.phase = PHASE_RELEASE,
                       !.phase_pos = 0,
                       !.phase_len = release_samples(h)]
    IN  IF p.phase_pos >= p.phase_len
        THEN IF h.phase_len <= 0 /\ h.mode = MODE_TRIGGER THEN r ELSE h
        ELSE p

\* The Hold case without the mode test: Gate-mode Hold expires too.
AdvanceHold_AnyMode(i) ==
    LET p == [i EXCEPT !.envelope = RSub(ROne, i.vel_depth),
                       !.phase_pos = i.phase_pos + 1]
    IN  IF p.phase_pos >= p.phase_len
        THEN [p EXCEPT !.phase = PHASE_RELEASE,
                       !.phase_pos = 0,
                       !.phase_len = release_samples(p)]
        ELSE p

\* The Hold case leaving Hold one frame late (> for >=).
AdvanceHold_OffByOne(i) ==
    LET p == [i EXCEPT !.envelope = RSub(ROne, i.vel_depth),
                       !.phase_pos = i.phase_pos + 1]
    IN  IF p.mode = MODE_TRIGGER /\ p.phase_pos > p.phase_len
        THEN [p EXCEPT !.phase = PHASE_RELEASE,
                       !.phase_pos = 0,
                       !.phase_len = release_samples(p)]
        ELSE p

\* The Hold case measuring Hold against the hold parameter as it is now,
\* not against the length stored when Hold was entered.
AdvanceHold_CurrentLen(i) ==
    LET p == [i EXCEPT !.envelope = RSub(ROne, i.vel_depth),
                       !.phase_pos = i.phase_pos + 1]
    IN  IF p.mode = MODE_TRIGGER /\ p.phase_pos >= hold_samples(p)
        THEN [p EXCEPT !.phase = PHASE_RELEASE,
                       !.phase_pos = 0,
                       !.phase_len = release_samples(p)]
        ELSE p

\* case PHASE_HOLD.
AdvanceHold(i) ==
    LET p == [i EXCEPT !.envelope = RSub(ROne, i.vel_depth),
                       !.phase_pos = i.phase_pos + 1]
    IN  IF p.mode = MODE_TRIGGER /\ p.phase_pos >= p.phase_len
        THEN [p EXCEPT !.phase = PHASE_RELEASE,
                       !.phase_pos = 0,
                       !.phase_len = release_samples(p)]
        ELSE p

\* The Release case recovering from the gain it finds instead of from full
\* depth.
AdvanceRelease_FromCurrent(i) ==
    LET t == Rat(i.phase_pos, i.phase_len)
        shaped == shape_curve(i.curve, t, TRUE)
        e == IF i.phase_len > 0
             THEN [i EXCEPT !.envelope =
                      RAdd(i.envelope, RMul(RSub(ROne, i.envelope), shaped))]
             ELSE i
        p == [e EXCEPT !.phase_pos = e.phase_pos + 1]
    IN  IF p.phase_pos >= p.phase_len
        THEN [p EXCEPT !.phase = PHASE_IDLE, !.envelope = ROne]
        ELSE p

\* The Release case going to Idle without setting the gain to 1.0.
AdvanceRelease_NoSnap(i) ==
    LET t == Rat(i.phase_pos, i.phase_len)
        shaped == shape_curve(i.curve, t, TRUE)
        e == IF i.phase_len > 0
             THEN [i EXCEPT !.envelope =
                      RAdd(RSub(ROne, i.vel_depth), RMul(i.vel_depth, shaped))]
             ELSE i
        p == [e EXCEPT !.phase_pos = e.phase_pos + 1]
    IN  IF p.phase_pos >= p.phase_len
        THEN [p EXCEPT !.phase = PHASE_IDLE]
        ELSE p

\* case PHASE_RELEASE.
AdvanceRelease(i) ==
    LET t == Rat(i.phase_pos, i.phase_len)
        shaped == shape_curve(i.curve, t, TRUE)
        e == IF i.phase_len > 0
             THEN [i EXCEPT !.envelope =
                      RAdd(RSub(ROne, i.vel_depth), RMul(i.vel_depth, shaped))]
             ELSE i
        p == [e EXCEPT !.phase_pos = e.phase_pos + 1]
    IN  IF p.phase_pos >= p.phase_len
        THEN [p EXCEPT !.phase = PHASE_IDLE, !.envelope = ROne]
        ELSE p

\* One iteration of the frame loop of v2_process_block: the envelope after
\* it is the gain the frame's two samples are multiplied by.
ProcessOne(i) ==
    CASE i.phase = PHASE_ATTACK -> AdvanceAttack(i)
      [] i.phase = PHASE_HOLD -> AdvanceHold(i)
      [] i.phase = PHASE_RELEASE -> AdvanceRelease(i)
      [] OTHER -> i

\* The frame loop of v2_process_block with `frames` frames still to do:
\* each iteration advances the envelope and multiplies the frame by it.
\* The result is the instance after the loop and the gains applied.
RECURSIVE FrameLoop(_, _, _)
FrameLoop(i, gains, frames) ==
    IF frames <= 0 THEN [inst |-> i, gains |-> gains]
    ELSE LET j == ProcessOne(i)
         IN  FrameLoop(j, Append(gains, j.envelope), frames - 1)

\* v2_process_block applying the gain to the first frame of a call before
\* the envelope has advanced.
v2_process_block_SkipFirst(i, frames) ==
    IF frames <= 0 THEN [inst |-> i, gains |-> <<>>]
    ELSE FrameLoop(i, <<i.envelope>>, frames - 1)

\* v2_process_block on a buffer of `frames` frames.
v2_process_block(i, frames) == FrameLoop(i, <<>>, frames)

\* ----------------------------------------------------------- MIDI handler

\* A MIDI message is a sequence of bytes; Len(msg) is the handler's len.
MsgStatus(msg) == (msg[1] \div 16) * 16
MsgChannel(msg) == (msg[1] % 16) + 1

\* The filters without the channel filter.
Qualifies_NoChannel(i, msg) ==
    /\ Len(msg) >= 3
    /\ msg[2] = i.trigger_note

\* The two filters of ducker_on_midi (and its length check).
Qualifies(i, msg) ==
    /\ Len(msg) >= 3
    /\ ~(i.channel > 0 /\ MsgChannel(msg) # i.channel)
    /\ msg[2] = i.trigger_note

IsNoteOn(msg) == MsgStatus(msg) = 144 /\ msg[3] > 0
IsNoteOff(msg) == MsgStatus(msg) = 128 \/ (MsgStatus(msg) = 144 /\ msg[3] = 0)

\* The note-on branch's depth with the velocity term subtracted.
VelDepth_Inverted(i, vel) ==
    LET vs == OfParam(i.vel_sens)
        vel_scale == IF i.vel_sens > 0
                     THEN RSub(ROne, RMul(vs, Rat(vel, 127)))
                     ELSE ROne
    IN  RMul(OfParam(i.depth), vel_scale)

\* vel_scale and vel_depth of the note-on branch.
VelDepth(i, vel) ==
    LET vs == OfParam(i.vel_sens)
        vel_scale == IF i.vel_sens > 0
                     THEN RAdd(RSub(ROne, vs), RMul(vs, Rat(vel, 127)))
                     ELSE ROne
    IN  RMul(OfParam(i.depth), vel_scale)

\* The note-on branch counting the note but not restarting an envelope
\* that is already running.
NoteOnBranch_NoRestart(i, vel) ==
    IF i.phase # PHASE_IDLE
    THEN [i EXCEPT !.active_notes = i.active_notes + 1]
    ELSE start_attack([i EXCEPT !.active_notes = i.active_notes + 1,
                                !.vel_depth = VelDepth(i, vel)])

NoteOnBranch(i, vel) ==
    start_attack([i EXCEPT !.active_notes = i.active_notes + 1,
                           !.vel_depth = VelDepth(i, vel)])

\* The note-off branch without the mode test: Trigger mode releases too.
NoteOffBranch_AnyMode(i) ==
    LET d == IF i.active_notes > 0
             THEN [i EXCEPT !.active_notes = i.active_notes - 1]
             ELSE i
    IN  IF /\ d.active_notes = 0
           /\ (d.phase = PHASE_HOLD \/ d.phase = PHASE_ATTACK)
        THEN start_release(d)
        ELSE d

\* The note-off branch counting down without the floor at 0.
NoteOffBranch_NoFloor(i) ==
    LET d == [i EXCEPT !.active_notes = i.active_notes - 1]
    IN  IF /\ d.mode = MODE_GATE
           /\ d.active_notes = 0
           /\ (d.phase = PHASE_HOLD \/ d.phase = PHASE_ATTACK)
        THEN start_release(d)
        ELSE d

\* The note-off branch releasing on every note-off, not only the last.
NoteOffBranch_AnyStop(i) ==
    LET d == IF i.active_notes > 0
             THEN [i EXCEPT !.active_notes = i.active_notes - 1]
             ELSE i
    IN  IF /\ d.mode = MODE_GATE
           /\ (d.phase = PHASE_HOLD \/ d.phase = PHASE_ATTACK)
        THEN start_release(d)
        ELSE d

NoteOffBranch(i) ==
    LET d == IF i.active_notes > 0
             THEN [i EXCEPT !.active_notes = i.active_notes - 1]
             ELSE i
    IN  IF /\ d.mode = MODE_GATE
           /\ d.active_notes = 0
           /\ (d.phase = PHASE_HOLD \/ d.phase = PHASE_ATTACK)
        THEN start_release(d)
        ELSE d

ducker_on_midi(i, msg) ==
    IF ~Qualifies(i, msg) THEN i
    ELSE IF IsNoteOn(msg) THEN NoteOnBranch(i, msg[3])
    ELSE IF IsNoteOff(msg) THEN NoteOffBranch(i)
    ELSE i

\* ------------------------------------------------------- parameter text

\* A C string handed to or returned by the parameter calls: either a word
\* (txt, which atof and atoi read as 0) or a decimal number (txt = "",
\* num in units of 1/PUnit).
Name(w) == [txt |-> w, num |-> 0]
Num(v) == [txt |-> "", num |-> v]

\* Truncation toward zero of a / b (b > 0): C's float-to-int conversion.
Trunc(a, b) == IF a >= 0 THEN a \div b ELSE -((-a) \div b)

atof(val) == val.num
atoi(val) == Trunc(val.num, PUnit)

parse_channel(val) ==
    IF val.txt = "Omni" THEN 0
    ELSE IF atoi(val) >= 1 /\ atoi(val) <= 16 THEN atoi(val)
    ELSE Trunc(atof(val) * 16 + PUnit \div 2, PUnit)

parse_curve(val) ==
    CASE val.txt = "Linear" -> CURVE_LINEAR
      [] val.txt = "Expo" -> CURVE_EXPO
      [] val.txt = "S-Curve" -> CURVE_SCURVE
      [] val.txt = "Pump" -> CURVE_PUMP
      [] OTHER ->
            LET idx == Trunc(atof(val) * 3 + PUnit \div 2, PUnit)
            IN  IF idx < 0 THEN 0 ELSE IF idx > 3 THEN 3 ELSE idx

parse_mode(val) ==
    CASE val.txt = "Trigger" -> MODE_TRIGGER
      [] val.txt = "Gate" -> MODE_GATE
      [] OTHER -> IF 2 * atof(val) > PUnit THEN MODE_GATE ELSE MODE_TRIGGER

\* The serialized configuration is an object with one member per key; a
\* member is absent ("none"), a quoted string ("str") or a bare number
\* ("num"), and val is its text.
StateKeys ==
    {"channel", "trigger_note", "mode", "depth", "attack", "hold",
     "release", "curve", "vel_sens"}

\* json_get_number: strstr for "key": and atof of what follows; a quoted
\* member starts with a quote, which atof reads as 0.
json_get_number(json, key) ==
    IF json[key].kind = "none" THEN [rc |-> -1, out |-> 0]
    ELSE [rc |-> 0,
          out |-> IF json[key].kind = "num" THEN json[key].val.num ELSE 0]

\* json_get_string: strstr for "key":" and the text up to the next quote.
json_get_string(json, key) ==
    IF json[key].kind = "str"
    THEN [rc |-> 0, out |-> json[key].val]
    ELSE [rc |-> -1, out |-> Name("")]

\* (int)clampf(fval, 0, hi) of the "state" branch.
ClampInt(fval, hi) == Trunc(clampf(fval, 0, hi * PUnit), PUnit)

\* The "state" branch of v2_set_param.
RestoreState(i, json) ==
    LET num(k) == json_get_number(json, k)
        str(k) == json_get_string(json, k)
        flt(k, old) == IF num(k).rc = 0 THEN clampf(num(k).out, 0, PUnit) ELSE old
    IN  [i EXCEPT
          !.channel = IF str("channel").rc = 0
                      THEN parse_channel(str("channel").out)
                      ELSE IF num("channel").rc = 0
                      THEN ClampInt(num("channel").out, 16)
                      ELSE @,
          !.trigger_note = IF num("trigger_note").rc = 0
                           THEN ClampInt(num("trigger_note").out, 127)
                           ELSE @,
          !.mode = IF str("mode").rc = 0
                   THEN parse_mode(str("mode").out)
                   ELSE IF num("mode").rc = 0
                   THEN ClampInt(num("mode").out, 1)
                   ELSE @,
          !.depth = flt("depth", @),
          !.attack = flt("attack", @),
          !.hold = flt("hold", @),
          !.release = flt("release", @),
          !.curve = IF str("curve").rc = 0
                    THEN parse_curve(str("curve").out)
                    ELSE IF num("curve").rc = 0
                    THEN ClampInt(num("curve").out, 3)
                    ELSE @,
          !.vel_sens = flt("vel_sens", @)]

\* v2_set_param.  val is a Name or Num for the single keys and a
\* serialized object for "state"; any other key is ignored.
v2_set_param(i, key, val) ==
    CASE key = "channel" -> [i EXCEPT !.channel = parse_channel(val)]
      [] key = "trigger_note" ->
            [i EXCEPT !.trigger_note =
                IF atoi(val) < 0 THEN 0 ELSE IF atoi(val) > 127 THEN 127 ELSE atoi(val)]
      [] key = "mode" -> [i EXCEPT !.mode = parse_mode(val)]
      [] key = "depth" -> [i EXCEPT !.depth = clampf(atof(val), 0, PUnit)]
      [] key = "attack" -> [i EXCEPT !.attack = clampf(atof(val), 0, PUnit)]
      [] key = "hold" -> [i EXCEPT !.hold = clampf(atof(val), 0, PUnit)]
      [] key = "release" -> [i EXCEPT !.release = clampf(atof(val), 0, PUnit)]
      [] key = "curve" -> [i EXCEPT !.curve = parse_curve(val)]
      [] key = "vel_sens" -> [i EXCEPT !.vel_sens = clampf(atof(val), 0, PUnit)]
      [] key = "state" -> RestoreState(i, val)
      [] OTHER -> i

\* names[0] is "Omni" and names[ch] the decimal text of ch.
channel_name(ch) ==
    IF ch < 0 \/ ch > 16 THEN Name("Omni")
    ELSE IF ch = 0 THEN Name("Omni") ELSE Num(ch * PUnit)

curve_name(curve) ==
    IF curve < 0 \/ curve > 3 THEN Name("Linear")
    ELSE <<Name("Linear"), Name("Expo"), Name("S-Curve"), Name("Pump")>>[curve + 1]

mode_name(mode) == IF mode = MODE_GATE THEN Name("Gate") ELSE Name("Trigger")

\* The three-decimal values k.kk5 (in units of 1/PUnit) whose nearest float
\* lies above the decimal, so that "%.2f" prints them rounded up; the float
\* of every other such value lies below, except the four that a float holds
\* exactly (0.125, 0.375, 0.625, 0.875), which print rounded to even.
F32Above ==
    {2500, 3500, 4500, 7500, 8500, 11500, 13500, 15500, 16500, 18500, 21500,
     24500, 27500, 30500, 33500, 36500, 39500, 40500, 42500, 43500, 45500,
     46500, 48500, 49500, 53500, 54500, 55500, 59500, 60500, 61500, 66500,
     67500, 68500, 72500, 73500, 74500, 78500, 79500, 80500, 84500, 85500,
     86500, 91500, 92500, 93500, 97500, 98500, 99500}

\* printf("%.<digits>f") of the float holding v (0 <= v <= PUnit), as the
\* printed number in units of 1/PUnit.  step is the printed digit's weight.
\* A float holds v/PUnit exactly only when 5^5 divides v.
Printf(v, step) ==
    LET q == v \div step
        r == v % step
        up == CASE 2 * r > step -> TRUE
                [] 2 * r < step -> FALSE
                [] v % 3125 = 0 -> q % 2 = 1
                [] OTHER -> v \in F32Above
    IN  Num((IF up THEN q + 1 ELSE q) * step)

\* The "state" branch of v2_get_param: numbers for every member.
SerializeState(i) ==
    [k \in StateKeys |->
        [kind |-> "num",
         val |-> CASE k = "channel" -> Num(i.channel * PUnit)
                   [] k = "trigger_note" -> Num(i.trigger_note * PUnit)
                   [] k = "mode" -> Num(i.mode * PUnit)
                   [] k = "curve" -> Num(i.curve * PUnit)
                   [] OTHER -> Printf(i[k], 100)]]

\* v2_get_param's text for a key (the scalar keys, "name" and "state").
v2_get_param(i, key) ==
    CASE key = "channel" -> channel_name(i.channel)
      [] key = "trigger_note" -> Num(i.trigger_note * PUnit)
      [] key = "mode" -> mode_name(i.mode)
      [] key = "depth" -> Printf(i.depth, 1000)
      [] key = "attack" -> Printf(i.attack, 1000)
      [] key = "hold" -> Printf(i.hold, 1000)
      [] key = "release" -> Printf(i.release, 1000)
      [] key = "curve" -> curve_name(i.curve)
      [] key = "vel_sens" -> Printf(i.vel_sens, 1000)
      [] key = "name" -> Name("DUCKER")
      [] key = "state" -> SerializeState(i)

\* strlen of the words v2_get_param prints.
WordLen(w) ==
    CASE w = "Omni" -> 4
      [] w = "Linear" -> 6
      [] w = "Expo" -> 4
      [] w = "S-Curve" -> 7
      [] w = "Pump" -> 4
      [] w = "Gate" -> 4
      [] w = "Trigger" -> 7
      [] w = "DUCKER" -> 6

\* Characters "%d" prints for v.
RECURSIVE IntLen(_)
IntLen(v) ==
    IF v < 0 THEN 1 + IntLen(-v)
    ELSE IF v < 10 THEN 1 ELSE 1 + IntLen(v \div 10)

\* Characters "%.2f" (digits = 2) or "%.3f" (digits = 3) prints for a
\* parameter in [0, 1]: one digit, the point and the decimals.
FloatLen(digits) == 2 + digits

\* strlen of the "state" format with its nine conversions taken out, of the
\* ui_hierarchy text and of the chain_params text.
StateFixedLen == 95
UiHierarchyLen == 230
ChainParamsLen == 802

GetKeys ==
    StateKeys \cup {"name", "state", "ui_hierarchy", "chain_params", "bogus"}

\* strlen of the complete result for a key; -1 for a key that has none.
ResultLen(i, key) ==
    CASE key = "channel" ->
            IF channel_name(i.channel).txt # ""
            THEN WordLen(channel_name(i.channel).txt) ELSE IntLen(i.channel)
      [] key = "trigger_note" -> IntLen(i.trigger_note)
      [] key = "mode" -> WordLen(mode_name(i.mode).txt)
      [] key \in {"depth", "attack", "hold", "release", "vel_sens"} -> FloatLen(2)
      [] key = "curve" -> WordLen(curve_name(i.curve).txt)
      [] key = "name" -> WordLen("DUCKER")
      [] key = "state" ->
            StateFixedLen + IntLen(i.channel) + IntLen(i.trigger_note)
                + IntLen(i.mode) + IntLen(i.curve) + 5 * FloatLen(3)
      [] key = "ui_hierarchy" -> UiHierarchyLen
      [] key = "chain_params" -> ChainParamsLen
      [] OTHER -> -1

\* The int v2_get_param returns.  The scalar keys, "name" and "state"
\* return snprintf's value, the length of the complete text whatever
\* buf_len is; ui_hierarchy and chain_params return -1 unless the text and
\* its terminator fit; any other key returns -1.
GetParamReturn(i, key, buf_len) ==
    CASE key \in {"ui_hierarchy", "chain_params"} ->
            IF ResultLen(i, key) < buf_len THEN ResultLen(i, key) ELSE -1
      [] key \in GetKeys \ {"bogus"} -> ResultLen(i, key)
      [] OTHER -> -1

\* Characters of the result that v2_get_param puts in the buffer (the
\* terminator not counted): snprintf truncates to buf_len - 1, strcpy is
\* called only when the text fits.
GetParamWritten(i, key, buf_len) ==
    CASE key \in {"ui_hierarchy", "chain_params"} ->
            IF ResultLen(i, key) < buf_len THEN ResultLen(i, key) ELSE 0
      [] key \in GetKeys \ {"bogus"} ->
            IF ResultLen(i, key) < buf_len THEN ResultLen(i, key)
            ELSE IF buf_len > 0 THEN buf_len - 1 ELSE 0
      [] OTHER -> 0

\* ------------------------------------------------------------ the calls

NoInst == [none |-> TRUE]
NoGet == [none |-> TRUE]

\* The parameter value that gives a phase of k samples when the phase's
\* ceiling (parameter 1.0) is maxSamples: k + 0.1 samples, rounded up to
\* the next unit.
DurParam(k, maxSamples) ==
    IF k = 0 THEN 0 ELSE ((10 * k + 1) * PUnit) \div (10 * maxSamples) + 1

\* The phase lengths at parameter 1.0: 50 ms, 500 ms and 1000 ms.
AttackMax == ms_to_samples(PUnit * 50)
HoldMax == ms_to_samples(PUnit * 500)
ReleaseMax == ms_to_samples(PUnit * 1000)

AttackParams == {DurParam(k, AttackMax) : k \in 0..MaxLen}
HoldParams == {DurParam(k, HoldMax) : k \in 0..MaxLen}
ReleaseParams == {DurParam(k, ReleaseMax) : k \in 0..MaxLen}

\* The messages played: note-on (lowest and highest velocity) and note-off
\* of the trigger note, note-on with velocity 0, another note, a
\* controller message and a truncated message, all on channel 1.
Velocities == {1, 127}
Msgs ==
    {<<144, 36, v>> : v \in Velocities \cup {0}} \cup
    {<<128, 36, 0>>, <<144, 37, 127>>, <<128, 37, 0>>, <<176, 36, 127>>,
     <<144, 36>>}

\* What a message is to the instance that receives it.
MsgClass(i, msg) ==
    IF ~Qualifies(i, msg) THEN "ignored"
    ELSE IF IsNoteOn(msg) THEN "start"
    ELSE IF IsNoteOff(msg) THEN "stop"
    ELSE "ignored"

\* How a phase was entered: by which call, from which phase, and whether a
\* frame had been processed in the phase that was left.
Entered(by, i) == [by |-> by, from |-> i.phase, ticked |-> i.phase_pos > 0]

\* move_audio_fx_on_midi on a message.
Midi(msg) ==
    /\ ducker_on_midi(inst, msg).active_notes <= MaxHeld
    /\ inst' = ducker_on_midi(inst, msg)
    /\ last' = MsgClass(inst, msg)
    /\ entry' = IF MsgClass(inst, msg) = "start" THEN Entered("start", inst)
                ELSE IF inst'.phase # inst.phase THEN Entered("stop", inst)
                ELSE entry
    /\ n' = IF MsgClass(inst, msg) = "start" THEN 0 ELSE n
    /\ UNCHANGED <<fresh, got>>

\* v2_process_block on one frame.
Process ==
    /\ inst.phase_pos < MaxPos
    /\ inst' = ProcessOne(inst)
    /\ last' = "process"
    /\ entry' = IF inst'.phase # inst.phase THEN Entered("advance", inst)
                ELSE entry
    /\ n' = IF n >= 0 /\ inst.phase # PHASE_IDLE THEN n + 1 ELSE n
    /\ UNCHANGED <<fresh, got>>

\* v2_process_block on a buffer of `frames` frames.  The frame counter n
\* is kept by the one-frame calls only: a longer call leaves it unknown.
ProcessBlock(frames) ==
    /\ v2_process_block(inst, frames).inst.phase_pos <= MaxPos
    /\ inst' = v2_process_block(inst, frames).inst
    /\ last' = "process"
    /\ entry' = IF inst'.phase # inst.phase THEN Entered("advance", inst)
                ELSE entry
    /\ n' = -1
    /\ UNCHANGED <<fresh, got>>

\* v2_set_param with one key and value.
SetParam(key, val) ==
    /\ inst' = v2_set_param(inst, key, val)
    /\ last' = "set_param"
    /\ n' = -1
    /\ fresh' = NoInst
    /\ UNCHANGED <<entry, got>>

\* A second instance is created and given the first one's "state".
Restore ==
    /\ fresh' = v2_set_param(v2_create_instance, "state",
                             v2_get_param(inst, "state"))
    /\ last' = "restore"
    /\ UNCHANGED <<inst, entry, n, got>>

\* v2_get_param with one key and a buffer of buf_len bytes.
GetParam(key, buf_len) ==
    /\ got' = [key |-> key, buf_len |-> buf_len,
               rc |-> GetParamReturn(inst, key, buf_len),
               len |-> ResultLen(inst, key),
               written |-> GetParamWritten(inst, key, buf_len)]
    /\ last' = "get_param"
    /\ UNCHANGED <<inst, entry, n, fresh>>

\* ----------------------------------------------- Spec: every call, interleaved

\* The writes of the interleaved specification.
Writes ==
    {<<"mode", Name("Trigger")>>, <<"mode", Name("Gate")>>,
     <<"channel", Name("Omni")>>, <<"channel", Num(1 * PUnit)>>} \cup
    {<<"attack", Num(DurParam(k, AttackMax))>> : k \in 0..MaxWriteLen} \cup
    {<<"hold", Num(DurParam(k, HoldMax))>> : k \in 0..MaxWriteLen} \cup
    {<<"release", Num(DurParam(k, ReleaseMax))>> : k \in 0..MaxWriteLen}

\* The instance as created, with the three durations then written to 0.
Configured(writes) ==
    LET RECURSIVE Apply(_, _)
        Apply(i, k) == IF k > Len(writes) THEN i
                       ELSE Apply(v2_set_param(i, writes[k][1], writes[k][2]), k + 1)
    IN  Apply(v2_create_instance, 1)

InitGhosts ==
    /\ last = "create"
    /\ entry = [by |-> "create", from |-> PHASE_IDLE, ticked |-> FALSE]
    /\ n = -1
    /\ fresh = NoInst
    /\ got = NoGet

Init ==
    /\ inst = Configured(<<<<"attack", Num(0)>>, <<"hold", Num(0)>>,
                           <<"release", Num(0)>>>>)
    /\ InitGhosts

\* The messages of the interleaved specification: note-on and note-off of
\* the trigger note on channels 1 and 2, note-on with velocity 0, and a
\* note-on and a note-off of another note.
SpecMsgs ==
    {<<144, 36, 127>>, <<144, 36, 0>>, <<128, 36, 0>>, <<145, 36, 127>>,
     <<129, 36, 0>>, <<144, 37, 127>>, <<128, 37, 0>>}

\* The "state" writes of the interleaved specification: numeric and string
\* encodings of configurations the single-key writes also reach.
SpecStates ==
    {[k \in StateKeys |->
        CASE k = "mode" -> [kind |-> "num", val |-> Num(1 * PUnit)]
          [] k = "attack" -> [kind |-> "num", val |-> Num(DurParam(1, AttackMax))]
          [] k = "hold" -> [kind |-> "num", val |-> Num(DurParam(2, HoldMax))]
          [] k = "release" -> [kind |-> "num", val |-> Num(0)]
          [] OTHER -> [kind |-> "none", val |-> Name("")]],
     [k \in StateKeys |->
        CASE k = "mode" -> [kind |-> "str", val |-> Name("Trigger")]
          [] k = "channel" -> [kind |-> "str", val |-> Name("Omni")]
          [] k = "attack" -> [kind |-> "num", val |-> Num(0)]
          [] k = "hold" -> [kind |-> "num", val |-> Num(DurParam(1, HoldMax))]
          [] k = "release" -> [kind |-> "num", val |-> Num(DurParam(2, ReleaseMax))]
          [] OTHER -> [kind |-> "none", val |-> Name("")]]}

Next ==
    \/ \E msg \in SpecMsgs : Midi(msg)
    \/ Process
    \/ \E w \in Writes : SetParam(w[1], w[2])
    \/ \E j \in SpecStates : SetParam("state", j)

Spec == Init /\ [][Next]_vars

\* --------------- SpecTrigger, SpecGate: a fixed configuration is played

\* The configurations played in one mode: every combination of phase
\* lengths up to MaxLen, every curve, half and full depth, velocity
\* sensitivity off and full.
PlayConfigs(m) ==
    {Configured(<<<<"mode", m>>, <<"attack", Num(a)>>, <<"hold", Num(h)>>,
                  <<"release", Num(r)>>, <<"curve", c>>, <<"depth", Num(d)>>,
                  <<"vel_sens", Num(s)>>>>) :
        a \in AttackParams, h \in HoldParams, r \in ReleaseParams,
        c \in {Name("Linear"), Name("Expo"), Name("S-Curve"), Name("Pump")},
        d \in {PUnit \div 2, PUnit}, s \in {0, PUnit}}

NextPlay ==
    \/ \E msg \in Msgs : Midi(msg)
    \/ Process

InitTrigger ==
    /\ inst \in PlayConfigs(Name("Trigger"))
    /\ InitGhosts

SpecTrigger == InitTrigger /\ [][NextPlay]_vars

InitGate ==
    /\ inst \in PlayConfigs(Name("Gate"))
    /\ InitGhosts

SpecGate == InitGate /\ [][NextPlay]_vars

\* ------------------- SpecBoth: a fixed configuration in either mode

\* Both modes, every combination of phase lengths up to MaxLen, the Linear
\* and Pump curves, full depth and full velocity sensitivity.
PlayBoth ==
    {Configured(<<<<"mode", m>>, <<"attack", Num(a)>>, <<"hold", Num(h)>>,
                  <<"release", Num(r)>>, <<"curve", c>>,
                  <<"vel_sens", Num(PUnit)>>>>) :
        m \in {Name("Trigger"), Name("Gate")},
        a \in AttackParams, h \in HoldParams, r \in ReleaseParams,
        c \in {Name("Linear"), Name("Pump")}}

InitBoth ==
    /\ inst \in PlayBoth
    /\ InitGhosts

SpecBoth == InitBoth /\ [][NextPlay]_vars

\* ------------------------------ SpecBlock: buffers of several frames

\* Most frames in one call of v2_process_block.
MaxBlock == 3

\* The messages between the calls: the trigger note on and off.
BlockMsgs == {<<144, 36, 127>>, <<128, 36, 0>>}

NextBlock ==
    \/ \E msg \in BlockMsgs : Midi(msg)
    \/ \E frames \in 0..MaxBlock : ProcessBlock(frames)

\* Both modes, every combination of phase lengths up to MaxLen, the Pump
\* curve (whose Attack and Release shapes differ), full depth.
InitBlock ==
    /\ inst \in {i \in PlayBoth : i.curve = CURVE_PUMP}
    /\ InitGhosts

SpecBlock == InitBlock /\ [][NextBlock]_vars

\* ------------------------------------- SpecParam: the parameter store alone

Absent == [kind |-> "none", val |-> Name("")]
JStr(v) == [kind |-> "str", val |-> v]
JNum(v) == [kind |-> "num", val |-> Num(v)]

\* The serialized object with the given members and no others.
Json(members) ==
    [k \in StateKeys |-> IF k \in DOMAIN members THEN members[k] ELSE Absent]

\* Single-key writes: values inside, below and above each domain, enum
\* names, numeric fallbacks for the enums, and text that is no number.
\* No decimal written has a 5 as its fourth and last digit.
ParamWrites ==
    {<<"channel", v>> : v \in {Name("Omni"), Num(5 * PUnit), Num(17 * PUnit),
                               Num(-1 * PUnit), Num(PUnit \div 2), Name("abc")}} \cup
    {<<"trigger_note", Num(v * PUnit)>> : v \in {-3, 60, 300}} \cup
    {<<"mode", v>> : v \in {Name("Gate"), Name("Trigger"), Num(7 * (PUnit \div 10))}} \cup
    {<<"depth", Num(v)>> : v \in {-50000, 2460, 12510, 150000}} \cup
    {<<k, Num(v)>> : k \in {"attack", "hold", "release", "vel_sens"},
                     v \in {-50000, 150000}} \cup
    {<<"curve", v>> : v \in {Name("Linear"), Name("S-Curve"), Name("Pump"),
                             Num(4 * (PUnit \div 10)), Num(7 * PUnit)}} \cup
    {<<"bogus", Num(PUnit)>>}

\* "state" writes: string encodings, out-of-range numeric encodings, and a
\* float member written as a quoted string.
StateWrites ==
    {Json([channel |-> JStr(Num(17 * PUnit)), mode |-> JStr(Name("Gate")),
           curve |-> JStr(Name("Pump")), trigger_note |-> JNum(300 * PUnit),
           depth |-> JNum(7 * PUnit)]),
     Json([channel |-> JNum(17 * PUnit), mode |-> JNum(7 * (PUnit \div 10)),
           curve |-> JNum(29 * (PUnit \div 10)),
           trigger_note |-> JNum(-35 * (PUnit \div 10)),
           depth |-> JNum(-7 * PUnit)]),
     Json([depth |-> JStr(Num(PUnit \div 2)), vel_sens |-> JNum(37460)])}

InitParam ==
    /\ inst = v2_create_instance
    /\ InitGhosts

NextParam ==
    \/ \E w \in ParamWrites : SetParam(w[1], w[2])
    \/ \E j \in StateWrites : SetParam("state", j)
    \/ Restore

SpecParam == InitParam /\ [][NextParam]_vars

\* ----------------------------------------- SpecGet: the parameter queries

\* Writes that change the length of a query's result.
GetWrites ==
    {<<"channel", v>> : v \in {Name("Omni"), Num(5 * PUnit), Num(16 * PUnit)}} \cup
    {<<"trigger_note", Num(v * PUnit)>> : v \in {5, 127}} \cup
    {<<"mode", v>> : v \in {Name("Gate"), Name("Trigger")}} \cup
    {<<"curve", v>> : v \in {Name("Expo"), Name("S-Curve")}}

\* Buffer sizes: none, shorter than every result, around the length of the
\* short results, and one below, at and one above the length of the long
\* ones.
BufLens ==
    {0, 1, 4, 5, 7, 8, 126, UiHierarchyLen, UiHierarchyLen + 1,
     ChainParamsLen, ChainParamsLen + 1}

NextGet ==
    \/ \E w \in GetWrites : SetParam(w[1], w[2])
    \/ \E key \in GetKeys, buf_len \in BufLens : GetParam(key, buf_len)

SpecGet == InitParam /\ [][NextGet]_vars

\* ------------------------------------------------------------ the claims

\* 1 - effective_depth: the gain at full duck.
FullDuck(i) == RSub(ROne, i.vel_depth)

EnvelopeFields(i) ==
    <<i.phase, i.phase_pos, i.phase_len, i.vel_depth, i.envelope, i.active_notes>>

\* The state in which C1's first Release frame is processed: Gate mode, the
\* last note-off has just moved the envelope from Attack to a Release of
\* positive length, and no frame has been processed since.
C1_Case ==
    /\ inst.mode = MODE_GATE
    /\ inst.phase = PHASE_RELEASE /\ inst.phase_pos = 0 /\ inst.phase_len > 0
    /\ entry.by = "stop" /\ entry.from = PHASE_ATTACK

\* C1, as claimed: the first gain applied in Release equals the last gain
\* applied in Attack (inst.envelope still holds it), or 1.0 if no frame was
\* processed in Attack.
C1_ReleaseFromAttackGain ==
    [][(C1_Case /\ last' = "process")
          => inst'.envelope = IF entry.ticked THEN inst.envelope ELSE ROne]_vars

\* C1, amended: in Gate mode, when the last note-off arrives during Attack
\* and the release length is positive, the first gain applied in Release is
\* 1 - effective_depth (full depth) whatever gain Attack had reached; when
\* the release length is exactly 1 that single frame already gets gain 1.0.
C1_ReleaseFromFullDepth ==
    [][(C1_Case /\ last' = "process")
          => inst'.envelope =
                IF inst.phase_len > 1 THEN FullDuck(inst) ELSE ROne]_vars

\* An Attack of two frames was cut after its first frame (gain 1.0); the
\* first Release frame has been processed and sits at full depth.
C1_Witness ==
    /\ inst.mode = MODE_GATE
    /\ inst.phase = PHASE_RELEASE /\ inst.phase_pos = 1
    /\ entry.by = "stop" /\ entry.from = PHASE_ATTACK /\ entry.ticked
    /\ last = "process"
    /\ inst.envelope = FullDuck(inst)
    /\ RLt(inst.envelope, ROne)

\* C2: in Trigger mode, the gain applied to every frame processed after a
\* qualifying note-on (no parameter write since) lies in
\* [1 - effective_depth, 1], which lies in [0, 1].
C2_GainInRange ==
    (inst.mode = MODE_TRIGGER /\ last = "process" /\ n >= 0)
        => /\ RLe(FullDuck(inst), inst.envelope)
           /\ RLe(inst.envelope, ROne)
           /\ RLe(RZero, FullDuck(inst))

\* A Release frame of the Pump curve strictly between full duck and 1.0.
C2_Witness ==
    /\ inst.mode = MODE_TRIGGER /\ last = "process" /\ n >= 0
    /\ inst.phase = PHASE_RELEASE /\ inst.curve = CURVE_PUMP
    /\ RLt(FullDuck(inst), inst.envelope)
    /\ RLt(inst.envelope, ROne)

\* Frames a Trigger-mode cycle takes to be back in Idle: A + H + R, and one
\* more when the release length is 0.
CycleFrames(i) ==
    attack_samples(i) + hold_samples(i) + release_samples(i)
        + (IF release_samples(i) = 0 THEN 1 ELSE 0)

\* C3: in Trigger mode, n frames after a qualifying note-on (no parameter
\* write since): the envelope is not Idle while n is below the cycle's
\* frame count, and is Idle with gain exactly 1.0 from then on, so the
\* frame that gets gain 1.0 has index A+H+R-1 (R > 0) or A+H+R (R = 0);
\* every frame processed before it outside Attack has gain below 1.0 when
\* the effective depth is positive.
C3_BackInIdle ==
    (inst.mode = MODE_TRIGGER /\ n >= 0)
        => /\ inst.phase # PHASE_IDLE => n < CycleFrames(inst)
           /\ inst.phase = PHASE_IDLE
                => n = CycleFrames(inst) /\ inst.envelope = ROne
           /\ (last = "process" /\ n >= 1
               /\ inst.phase \in {PHASE_HOLD, PHASE_RELEASE}
               /\ RLt(RZero, inst.vel_depth))
                => RLt(inst.envelope, ROne)

\* A full cycle with all three phases of positive length has just ended.
C3_Witness ==
    /\ inst.mode = MODE_TRIGGER /\ last = "process"
    /\ inst.phase = PHASE_IDLE
    /\ attack_samples(inst) > 0 /\ hold_samples(inst) > 0
    /\ release_samples(inst) > 0
    /\ n = attack_samples(inst) + hold_samples(inst) + release_samples(inst)

\* C4, as claimed: whenever phase is not Idle and phase_len > 0,
\* phase_pos < phase_len.
C4_PosBelowLenAlways ==
    (inst.phase # PHASE_IDLE /\ inst.phase_len > 0)
        => inst.phase_pos < inst.phase_len

\* C4, amended: phase_pos < phase_len whenever phase_len > 0 and the phase
\* is Attack or Release, or is Hold in Trigger mode with no parameter write
\* since the note-on that began the cycle.  In Gate mode Hold keeps counting
\* and phase_pos passes phase_len.
C4_PosBelowLen ==
    (/\ inst.phase_len > 0
     /\ \/ inst.phase \in {PHASE_ATTACK, PHASE_RELEASE}
        \/ inst.phase = PHASE_HOLD /\ inst.mode = MODE_TRIGGER /\ n >= 0)
        => inst.phase_pos < inst.phase_len

\* The last frame but one of a Release, after a parameter write in the cycle.
C4_Witness ==
    /\ inst.phase = PHASE_RELEASE /\ inst.phase_len >= 2
    /\ inst.phase_pos = inst.phase_len - 1
    /\ last = "process" /\ n = -1

\* C5, as claimed: no call leaves the envelope in Attack, Hold or Release
\* with phase_len <= 0, Hold in Gate mode excepted.
C5_NoZeroLengthPhase ==
    ~(/\ inst.phase \in {PHASE_ATTACK, PHASE_HOLD, PHASE_RELEASE}
      /\ inst.phase_len <= 0
      /\ ~(inst.phase = PHASE_HOLD /\ inst.mode = MODE_GATE))

\* C5, amended: Attack is never entered with length <= 0; a note-on or a
\* frame enters Hold with length <= 0 only in Gate mode; a note-off never
\* leaves Release with length <= 0 (start_release goes to Idle).  Release
\* with length 0 is entered, by start_attack and by the frame that ends
\* Attack or Hold, when the release length is 0: it lasts until the next
\* frame, which goes to Idle with gain 1.0.
C5_ZeroLengthPhases ==
    [][/\ inst'.phase = PHASE_ATTACK => inst'.phase_len > 0
       /\ (/\ last' \in {"start", "process"}
           /\ inst'.phase = PHASE_HOLD /\ inst'.phase_pos = 0
           /\ inst'.phase_len <= 0)
            => inst'.mode = MODE_GATE
       /\ (inst'.phase = PHASE_RELEASE /\ inst'.phase_len <= 0)
            => entry'.by \in {"start", "advance"}
       /\ (inst.phase = PHASE_RELEASE /\ inst.phase_len <= 0 /\ last' = "process")
            => inst'.phase = PHASE_IDLE /\ inst'.envelope = ROne]_vars

\* A note-on has just left the envelope in a Release of length 0.
C5_Witness ==
    /\ last = "start"
    /\ inst.phase = PHASE_RELEASE /\ inst.phase_len = 0
    /\ attack_samples(inst) = 0 /\ hold_samples(inst) = 0
    /\ release_samples(inst) = 0

\* C6: in Gate mode a qualifying note-on raises active_notes by one and a
\* qualifying note-off lowers it by one (not below 0); a note-off that
\* leaves active_notes >= 1 (two note-ons, one note-off) leaves the
\* envelope where it was, in Attack or Hold; a note-off takes the envelope
\* out of Attack or Hold only when it brings active_notes to 0.
C6_GateReleaseOnLastStop ==
    [][inst.mode = MODE_GATE
          => /\ last' = "start" => inst'.active_notes = inst.active_notes + 1
             /\ last' = "stop"
                  => /\ inst'.active_notes =
                          IF inst.active_notes > 0
                          THEN inst.active_notes - 1 ELSE 0
                     /\ inst'.active_notes >= 1
                          => /\ inst'.phase \in {PHASE_ATTACK, PHASE_HOLD}
                             /\ EnvelopeFields(inst') =
                                  [EnvelopeFields(inst) EXCEPT
                                      ![6] = inst'.active_notes]
                     /\ (/\ inst.phase \in {PHASE_ATTACK, PHASE_HOLD}
                         /\ inst'.phase \notin {PHASE_ATTACK, PHASE_HOLD})
                          => inst'.active_notes = 0]_vars

\* Two notes were held, frames were processed, one note was released: the
\* envelope is still in Hold.
C6_Witness ==
    /\ inst.mode = MODE_GATE /\ last = "stop"
    /\ inst.active_notes = 1
    /\ inst.phase = PHASE_HOLD /\ inst.phase_pos > 0

\* C7, as claimed: every configuration field is inside its domain.
C7_FieldsInDomain ==
    /\ inst.channel \in 0..16
    /\ inst.trigger_note \in 0..127
    /\ inst.mode \in {MODE_TRIGGER, MODE_GATE}
    /\ inst.curve \in {CURVE_LINEAR, CURVE_EXPO, CURVE_SCURVE, CURVE_PUMP}
    /\ \A k \in {"depth", "attack", "hold", "release", "vel_sens"} :
          inst[k] >= 0 /\ inst[k] <= PUnit

\* C8, as claimed: the instance restored from the "state" text answers
\* every get-by-name as the original does.
C8_RoundTrip ==
    fresh # NoInst
        => \A k \in StateKeys : v2_get_param(fresh, k) = v2_get_param(inst, k)

\* A qualifying note-on: the step the handler takes on msg.
StartStep(msg) ==
    /\ last' = "start"
    /\ MsgClass(inst, msg) = "start"
    /\ inst' = ducker_on_midi(inst, msg)

\* C9, as claimed: with vel_sens 0 the effective depth is depth; with
\* vel_sens 1 it is 0 at the lowest note-on velocity (1) and depth at 127.
C9_VelocityScalingToZero ==
    [][last' = "start"
          => \A msg \in Msgs :
                StartStep(msg)
                    => /\ inst.vel_sens = 0
                            => inst'.vel_depth = OfParam(inst.depth)
                       /\ inst.vel_sens = PUnit
                            => /\ msg[3] = 1 => inst'.vel_depth = RZero
                               /\ msg[3] = 127
                                    => inst'.vel_depth = OfParam(inst.depth)]_vars

\* C9, amended: with vel_sens 0 the effective depth is depth for every
\* velocity; with vel_sens 1 it is depth * velocity / 127, which is
\* depth / 127 (not 0) at the lowest note-on velocity, 1, and depth at 127.
C9_VelocityScaling ==
    [][last' = "start"
          => \A msg \in Msgs :
                StartStep(msg)
                    => /\ inst.vel_sens = 0
                            => inst'.vel_depth = OfParam(inst.depth)
                       /\ inst.vel_sens = PUnit
                            => inst'.vel_depth =
                                 RMul(OfParam(inst.depth), Rat(msg[3], 127))]_vars

\* A note-on of velocity 1 at full sensitivity: depth / 127.
C9_Witness ==
    /\ last = "start" /\ inst.vel_sens = PUnit /\ inst.depth > 0
    /\ inst.vel_depth = RMul(OfParam(inst.depth), Rat(1, 127))

\* An event the filter rejects: the configured channel is not 0 and is not
\* the event's, or the event's note is not trigger_note.
Filtered(i, msg) ==
    \/ i.channel # 0 /\ i.channel # MsgChannel(msg)
    \/ msg[2] # i.trigger_note

\* C10: a message that fails the filter, note-on or note-off, in either
\* mode, leaves phase, phase_pos, phase_len, vel_depth, envelope and
\* active_notes unchanged.
C10_FilteredIgnored ==
    [][last' \in {"ignored", "start", "stop"}
          => \A msg \in SpecMsgs :
                (Filtered(inst, msg) /\ inst' = ducker_on_midi(inst, msg))
                    => EnvelopeFields(inst') = EnvelopeFields(inst)]_vars

\* A filtered message arrived in Gate-mode Hold with a channel configured.
C10_Witness ==
    /\ last = "ignored"
    /\ inst.channel = 1 /\ inst.mode = MODE_GATE
    /\ inst.phase = PHASE_HOLD /\ inst.active_notes > 0

\* C11: in Trigger mode a qualifying note-off (or note-on with velocity 0)
\* leaves phase, phase_pos, phase_len, vel_depth and envelope unchanged in
\* every phase; active_notes goes down by one, not below 0.
C11_TriggerIgnoresStop ==
    [][(inst.mode = MODE_TRIGGER /\ last' = "stop")
          => EnvelopeFields(inst') =
                [EnvelopeFields(inst) EXCEPT
                    ![6] = IF inst.active_notes > 0
                           THEN inst.active_notes - 1 ELSE 0]]_vars

\* A note-off arrived in Trigger mode while an Attack was in progress and
\* the note was counted as held.
C11_Witness ==
    /\ inst.mode = MODE_TRIGGER /\ last = "stop"
    /\ inst.phase = PHASE_ATTACK /\ inst.phase_pos > 0
    /\ inst.active_notes = 0 /\ n > 0

\* C12: while the mode is Gate, a processed frame never takes the envelope
\* out of Hold, whatever phase_pos and phase_len are (phase_len 0
\* included): it counts phase_pos up and leaves the gain at
\* 1 - effective_depth.  Hold is left only by a note-off that brings
\* active_notes to 0 or by a qualifying note-on.
C12_GateHoldNeverExpires ==
    [][(inst.mode = MODE_GATE /\ inst.phase = PHASE_HOLD)
          => /\ last' = "process"
                  => /\ inst'.phase = PHASE_HOLD
                     /\ inst'.phase_pos = inst.phase_pos + 1
                     /\ inst'.phase_len = inst.phase_len
                     /\ inst'.envelope = FullDuck(inst)
                     /\ inst'.vel_depth = inst.vel_depth
             /\ inst'.phase # PHASE_HOLD
                  => \/ last' = "start"
                     \/ last' = "stop" /\ inst'.active_notes = 0]_vars

\* A Gate-mode Hold whose frame counter has passed its length.
C12_Witness ==
    /\ inst.mode = MODE_GATE /\ last = "process"
    /\ inst.phase = PHASE_HOLD /\ inst.phase_pos > inst.phase_len
    /\ inst.envelope = FullDuck(inst) /\ RLt(inst.envelope, ROne)

\* C13: in Gate mode with a release length of 0, the note-off that brings
\* active_notes to 0 during Attack or Hold leaves the envelope in Idle with
\* gain exactly 1.0 when the handler returns; the envelope is never in
\* Release, so no frame gets a Release-curve gain, and it stays in Idle
\* with gain 1.0 until the next note-on.
C13_GateZeroReleaseSnaps ==
    [][(inst.mode = MODE_GATE /\ release_samples(inst) = 0)
          => /\ (/\ last' = "stop" /\ inst'.active_notes = 0
                  /\ inst.phase \in {PHASE_ATTACK, PHASE_HOLD})
                  => inst'.phase = PHASE_IDLE /\ inst'.envelope = ROne
             /\ inst'.phase # PHASE_RELEASE
             /\ entry'.by = "stop"
                  => inst'.phase = PHASE_IDLE /\ inst'.envelope = ROne]_vars

\* The last note-off arrived in a Hold that had processed frames at a gain
\* below 1.0, with release length 0: Idle at once.
C13_Witness ==
    /\ inst.mode = MODE_GATE /\ release_samples(inst) = 0
    /\ last = "stop" /\ inst.active_notes = 0
    /\ entry.by = "stop" /\ entry.from = PHASE_HOLD /\ entry.ticked
    /\ RLt(RZero, inst.vel_depth)
    /\ inst.phase = PHASE_IDLE /\ inst.envelope = ROne

\* The instance with its envelope as v2_create_instance leaves it.
AtRest(i) ==
    [i EXCEPT !.phase = PHASE_IDLE, !.phase_pos = 0, !.phase_len = 0,
              !.vel_depth = RZero, !.envelope = ROne]

\* C14: a qualifying note-on, in any phase and either mode, stores
\* vel_depth computed from this note's velocity, sets phase_pos to 0, adds
\* one to active_notes, and enters Attack with the attack length, or, past
\* the zero-length phases, Hold (Release in Trigger mode when Hold is
\* zero too) with that phase's length.  Apart from active_notes and the
\* not yet recomputed envelope the instance is as after the same note-on
\* arriving in Idle, and the next frame processed leaves the two equal.
C14_StartRestarts ==
    [][last' = "start"
          => \A msg \in Msgs :
                StartStep(msg)
                    => LET A == attack_samples(inst)
                           H == hold_samples(inst)
                           clean == ducker_on_midi(AtRest(inst), msg)
                       IN  /\ inst'.vel_depth = VelDepth(inst, msg[3])
                           /\ inst'.phase_pos = 0
                           /\ inst'.active_notes = inst.active_notes + 1
                           /\ inst'.phase =
                                IF A > 0 THEN PHASE_ATTACK
                                ELSE IF H > 0 \/ inst.mode = MODE_GATE
                                THEN PHASE_HOLD ELSE PHASE_RELEASE
                           /\ inst'.phase_len =
                                IF A > 0 THEN A
                                ELSE IF H > 0 \/ inst.mode = MODE_GATE
                                THEN H ELSE release_samples(inst)
                           /\ [inst' EXCEPT !.envelope = ROne]
                                = [clean EXCEPT !.envelope = ROne]
                           /\ ProcessOne(inst') = ProcessOne(clean)]_vars

\* A note-on arrived in a Release that had processed frames: the envelope
\* is in Attack at position 0 with the Release's last gain still stored.
C14_Witness ==
    /\ last = "start"
    /\ entry.by = "start" /\ entry.from = PHASE_RELEASE /\ entry.ticked
    /\ inst.phase = PHASE_ATTACK /\ inst.phase_pos = 0
    /\ RLt(inst.envelope, ROne)

\* C15: with an attack length of 0 and a positive hold length, a
\* qualifying note-on leaves the envelope in Hold at position 0 with gain
\* 1 - effective_depth, Attack is never entered, and every frame processed
\* in Hold, the first one after the note-on included, gets gain exactly
\* 1 - effective_depth: no frame before Release gets a gain in between.
C15_ZeroAttackFullDuck ==
    [][(attack_samples(inst) = 0 /\ hold_samples(inst) > 0)
          => /\ last' = "start"
                  => /\ inst'.phase = PHASE_HOLD /\ inst'.phase_pos = 0
                     /\ inst'.envelope = FullDuck(inst')
             /\ (last' = "process" /\ inst.phase = PHASE_HOLD)
                  => inst'.envelope = FullDuck(inst')
             /\ (last' = "process" /\ last = "start")
                  => inst.phase = PHASE_HOLD
             /\ inst'.phase # PHASE_ATTACK]_vars

\* The first frame after a note-on of velocity 1 (effective depth 1/127)
\* with attack length 0: processed in Hold at full duck.
C15_Witness ==
    /\ attack_samples(inst) = 0 /\ hold_samples(inst) >= 2
    /\ last = "process" /\ n = 1
    /\ inst.phase = PHASE_HOLD /\ inst.phase_pos = 1
    /\ inst.envelope = FullDuck(inst)
    /\ RLt(RZero, inst.vel_depth) /\ RLt(inst.vel_depth, ROne)

\* The state a cascade past a zero-length Hold leaves: Release at position
\* 0 with the release length.
InReleaseAtZero(i, len) ==
    i.phase = PHASE_RELEASE /\ i.phase_pos = 0 /\ i.phase_len = len

\* C16: in Trigger mode, a qualifying note-on with attack and hold lengths
\* 0 leaves the envelope in Release at position 0 with the release length
\* when the handler returns; so does the frame that completes a positive-
\* length Attack when the hold length is 0.
C16_CascadeIntoRelease ==
    [][(inst.mode = MODE_TRIGGER /\ hold_samples(inst) = 0)
          => /\ (last' = "start" /\ attack_samples(inst) = 0)
                  => InReleaseAtZero(inst', release_samples(inst))
             /\ (/\ last' = "process" /\ inst.phase = PHASE_ATTACK
                  /\ inst.phase_pos + 1 >= inst.phase_len)
                  => InReleaseAtZero(inst', release_samples(inst))
             /\ inst'.phase # PHASE_HOLD]_vars

\* The frame that completed an Attack of two frames went straight to a
\* Release of positive length.
C16_Witness ==
    /\ inst.mode = MODE_TRIGGER /\ hold_samples(inst) = 0
    /\ attack_samples(inst) = 2 /\ n = 2 /\ last = "process"
    /\ entry.by = "advance" /\ entry.from = PHASE_ATTACK
    /\ InReleaseAtZero(inst, release_samples(inst))
    /\ inst.phase_len > 0

\* Writes of the keys the interleaved specification does not write, and of
\* a key the plugin does not know.
OtherWrites ==
    {<<"depth", Num(PUnit \div 2)>>, <<"curve", Name("Pump")>>,
     <<"vel_sens", Num(PUnit)>>, <<"trigger_note", Num(60 * PUnit)>>,
     <<"bogus", Num(PUnit)>>}

\* The current length of a phase, from the parameters as they are now.
CurrentLen(i, phase) ==
    CASE phase = PHASE_ATTACK -> attack_samples(i)
      [] phase = PHASE_HOLD -> hold_samples(i)
      [] phase = PHASE_RELEASE -> release_samples(i)
      [] OTHER -> i.phase_len

\* C17: v2_set_param, with any key ("state" included), leaves phase,
\* phase_pos, phase_len, vel_depth, envelope and active_notes unchanged.
\* The phase in progress keeps the phase_len stored at its entry: Attack,
\* Release and Trigger-mode Hold end with the frame that brings phase_pos
\* to that stored length, whatever attack, hold and release are by then,
\* and the phase entered then takes its length from the parameter as it
\* is at that frame.
C17_WritesLeaveEnvelope ==
    [][/\ last' = "set_param"
            => /\ EnvelopeFields(inst') = EnvelopeFields(inst)
               /\ \A w \in OtherWrites :
                     EnvelopeFields(v2_set_param(inst, w[1], w[2]))
                        = EnvelopeFields(inst)
       /\ (last' = "process" /\ inst.phase # PHASE_IDLE)
            => /\ inst'.phase = inst.phase
                    => /\ inst'.phase_len = inst.phase_len
                       /\ inst'.phase_pos = inst.phase_pos + 1
               /\ (\/ inst.phase \in {PHASE_ATTACK, PHASE_RELEASE}
                   \/ inst.mode = MODE_TRIGGER)
                    => (inst'.phase # inst.phase
                          <=> inst.phase_pos + 1 >= inst.phase_len)
               /\ inst'.phase # inst.phase
                    => inst'.phase_len = CurrentLen(inst, inst'.phase)]_vars

\* A Trigger-mode Hold entered with length 2 has processed its first frame
\* after the hold parameter was written to another length.
C17_Witness ==
    /\ last = "process" /\ n = -1
    /\ inst.mode = MODE_TRIGGER
    /\ inst.phase = PHASE_HOLD /\ inst.phase_pos = 1 /\ inst.phase_len = 2
    /\ hold_samples(inst) # 2

\* C18, as claimed: a query whose result (with its terminator) does not
\* fit in the buffer returns a negative value, and a query that returns a
\* non-negative length has written the complete result.
C18_TooSmallFails ==
    got # NoGet
        => /\ (got.len >= 0 /\ got.len >= got.buf_len) => got.rc < 0
           /\ got.rc >= 0 => got.written = got.len

\* C19: whenever the phase is Idle the gain is exactly 1.0 (after
\* creation, after a Release completes, after start_release with release
\* length 0), and a frame processed in Idle changes no envelope field.
C19_IdleIsUnity ==
    [][/\ inst.phase = PHASE_IDLE => inst.envelope = ROne
       /\ inst'.phase = PHASE_IDLE => inst'.envelope = ROne
       /\ (inst.phase = PHASE_IDLE /\ last' = "process")
            => EnvelopeFields(inst') = EnvelopeFields(inst)]_vars

\* A Release of at least two frames, at a positive depth, has just
\* completed: Idle with gain 1.0.
C19_Witness ==
    /\ last = "process" /\ inst.phase = PHASE_IDLE
    /\ entry.by = "advance" /\ entry.from = PHASE_RELEASE /\ entry.ticked
    /\ RLt(RZero, inst.vel_depth)
    /\ inst.envelope = ROne

\* C20: from every reachable state, processing a frames in one call and
\* b frames in the next gives the same gains, frame by frame, and the
\* same instance as processing a + b frames in one call; a call of k
\* frames applies k gains.
C20_BlockPartition ==
    \A a \in 0..MaxBlock, b \in 0..MaxBlock :
        LET whole == v2_process_block(inst, a + b)
            first == v2_process_block(inst, a)
            second == v2_process_block(first.inst, b)
        IN  /\ whole.inst = second.inst
            /\ whole.gains = first.gains \o second.gains
            /\ Len(whole.gains) = a + b

\* One call took the envelope from Attack through a Hold of positive
\* length into Release, in Trigger mode at a positive depth.
C20_Witness ==
    /\ last = "process" /\ inst.mode = MODE_TRIGGER
    /\ entry.by = "advance" /\ entry.from = PHASE_ATTACK
    /\ hold_samples(inst) > 0
    /\ inst.phase = PHASE_RELEASE
    /\ RLt(RZero, inst.vel_depth)

\* C21: in Gate mode with the configuration fixed, after every
\* interleaving of qualifying note-ons, qualifying note-offs (also those
\* that match no note-on) and frames, active_notes is never negative, it
\* is 0 exactly when the phase is Idle or Release, and it is at least 1
\* exactly when the phase is Attack or Hold: the envelope is never in
\* Hold with no note held.
C21_HeldMatchesPhase ==
    inst.mode = MODE_GATE
        => /\ inst.active_notes >= 0
           /\ inst.active_notes = 0
                <=> inst.phase \in {PHASE_IDLE, PHASE_RELEASE}
           /\ inst.active_notes >= 1
                <=> inst.phase \in {PHASE_ATTACK, PHASE_HOLD}

\* The last held note was released from a Hold in which frames had been
\* processed, frames were processed in the Release that followed, and then
\* a note-off that matches no note-on arrived: still Release, nothing held.
C21_Witness ==
    /\ inst.mode = MODE_GATE /\ last = "stop"
    /\ entry.by = "stop" /\ entry.from = PHASE_HOLD /\ entry.ticked
    /\ inst.phase = PHASE_RELEASE /\ inst.phase_pos > 0
    /\ inst.active_notes = 0

====
